---- MODULE Spec2Model ----
(***************************************************************************)
(* A model of LogIA's evaluation subsystem:                                *)
(*   src/LogIA/src/evaluator_human.py   GroundTruthEvaluator               *)
(*   src/LogIA/evaluate_models.py       load_responses_from_directory      *)
(*                                                                         *)
(* Python values are modelled as follows.                                  *)
(*   str    a sequence of one-character strings (<<>> is "")               *)
(*   dict   an insertion-ordered sequence of [k |-> key, v |-> value]      *)
(*          entries with pairwise distinct keys                            *)
(*   a JSON object read from a file: a TLA+ record whose DOMAIN is the set *)
(*          of keys the object has                                         *)
(*   a JSON value that may or may not be a string: [t |-> "str", s |-> _]  *)
(*          or [t |-> "null", s |-> <<>>]                                  *)
(*   score  an integer number of hundredths (750 is 7.5)                   *)
(***************************************************************************)
EXTENDS Integers, Sequences, FiniteSets, TLC

VARIABLES
    ground_truth,   \* GroundTruthEvaluator.ground_truth
    answers,        \* GroundTruthEvaluator.answers
    pc,             \* position of the caller of evaluate_all_models
    idx,            \* position of the loop of evaluate_all_models
    results,        \* the local `results` of evaluate_all_models
    returned,       \* the mappings returned by the calls made so far
    dir_exists,     \* whether the directory given to the loader exists
    directory,      \* os.listdir(directory): the files, in scan order
    lpc,            \* position of load_responses_from_directory
    file_idx,       \* position of its loop over the listing
    responses,      \* its local `responses`
    printed,        \* the names of the files its messages were printed for
    option,         \* what the user enters at evaluation_menu
    eval_mode,      \* main's eval_mode
    mpc,            \* position of main (evaluate_models.py)
    gt_exists,      \* whether the ground-truth file exists
    reference_model,\* main's reference_model
    abort_cause,    \* what made main raise, "" while it has not
    judge_idx,      \* position of the judge evaluator's loop
    judge_calls,    \* the models a judge call was issued for, in order
    judge_failed,   \* the models whose judge call failed
    judge_results,  \* the results mapping of the judge evaluator
    clock,          \* datetime.now(), in whole seconds
    disk,           \* the results files on disk: name -> content
    writes,         \* every save_results so far: name and content
    tables,         \* QUESTIONS, RESPONSE_STYLES, ONE_SHOT_EXAMPLES
    logs,           \* what load_logs returns for the log file
    topic_arg,      \* the topic given to generate_prompt
    prompt,         \* the prompt generate_prompt returned
    ppc,            \* position of the caller of generate_prompt
    questions_arg,  \* the questions given to format_model_response
    response_text,  \* the raw response given to format_model_response
    formatted,      \* what format_model_response returned
    fpc             \* position of the caller of format_model_response

evalVars == <<ground_truth, answers, pc, idx, results, returned>>

loadVars == <<dir_exists, directory, lpc, file_idx, responses, printed>>

mainVars == <<option, eval_mode, mpc, gt_exists, reference_model, abort_cause,
              judge_idx, judge_calls, judge_failed, judge_results>>

saveVars == <<clock, disk, writes>>

promptVars == <<tables, logs, topic_arg, prompt, ppc>>

formatVars == <<questions_arg, response_text, formatted, fpc>>

vars == <<evalVars, loadVars, mainVars, saveVars, promptVars, formatVars>>

(***************************************************************************)
(* Bounds of the model.                                                    *)
(***************************************************************************)
MaxCalls == 2
MaxFiles == 3

(***************************************************************************)
(* str                                                                      *)
(***************************************************************************)
\* str.lower(), one character
LowerChar(c) ==
    CASE c = "Y" -> "y"
      [] c = "N" -> "n"
      [] c = "G" -> "g"
      [] c = "P" -> "p"
      [] c = "T" -> "t"
      [] OTHER -> c

\* str.lower()
lower(s) == [i \in 1..Len(s) |-> LowerChar(s[i])]

\* the characters str.strip() removes
IsSpace(c) == c \in {" ", "\t", "\n"}

RECURSIVE lstrip(_)
lstrip(s) ==
    IF s # <<>> /\ IsSpace(Head(s)) THEN lstrip(Tail(s)) ELSE s

RECURSIVE rstrip(_)
rstrip(s) ==
    IF s # <<>> /\ IsSpace(s[Len(s)]) THEN rstrip(SubSeq(s, 1, Len(s) - 1)) ELSE s

\* str.strip()
strip(s) == rstrip(lstrip(s))

(***************************************************************************)
(* dict                                                                     *)
(***************************************************************************)
Entry(key, value) == [k |-> key, v |-> value]

DictKeys(d) == [i \in 1..Len(d) |-> d[i].k]

KeySet(d) == {d[i].k : i \in 1..Len(d)}

HasKey(d, key) == \E i \in 1..Len(d) : d[i].k = key

\* d[key], for a key d has
DictAt(d, key) == d[CHOOSE i \in 1..Len(d) : d[i].k = key].v

\* d.get(key, default)
DictGet(d, key, default) == IF HasKey(d, key) THEN DictAt(d, key) ELSE default

\* DictSet, had a new key gone first
DictSetFront(d, key, value) ==
    IF HasKey(d, key)
    THEN [i \in 1..Len(d) |-> IF d[i].k = key THEN Entry(key, value) ELSE d[i]]
    ELSE <<Entry(key, value)>> \o d

\* d[key] = value: a present key keeps its position, a new key goes last
DictSet(d, key, value) ==
    IF HasKey(d, key)
    THEN [i \in 1..Len(d) |-> IF d[i].k = key THEN Entry(key, value) ELSE d[i]]
    ELSE Append(d, Entry(key, value))

\* obj.get(key, default) on a JSON object
Get(obj, key, default) == IF key \in DOMAIN obj THEN obj[key] ELSE default

Str(s) == [t |-> "str", s |-> s]
Null == [t |-> "null", s |-> <<>>]

\* Python's None where a topic is expected
None == "None"

(***************************************************************************)
(* The topic catalog (src/LogIA/src/dataset.py)                            *)
(***************************************************************************)
\* src/LogIA/src/dataset.py, QUESTIONS: topic -> list of question texts.
\* A question text is an opaque key; two topics stand for the five.
QUESTIONS ==
    << Entry("T1", <<"Q1", "Q2", "Q3", "Q4">>),
       Entry("T2", <<"Q5">>) >>

(***************************************************************************)
(* GroundTruthEvaluator (src/LogIA/src/evaluator_human.py)                 *)
(***************************************************************************)
\* ExpectedAnswers, had the lookup kept only the questions of the catalog
ExpectedAnswersInCatalog(gt, model_data) ==
    LET topic == Get(model_data, "topic", None)
        qs == DictGet(QUESTIONS, topic, <<>>)
    IN  SelectSeq(DictGet(gt, topic, <<>>),
                  LAMBDA e : \E i \in 1..Len(qs) : qs[i] = e.k)

\* lines 46-48: the expected answers of the record's topic, {} when the
\* ground truth has no such topic (a record with no topic asks for None)
ExpectedAnswers(gt, model_data) ==
    DictGet(gt, Get(model_data, "topic", None), <<>>)

\* line 47: model_data.get("questions_answers", {})
ModelAnswers(model_data) == Get(model_data, "questions_answers", <<>>)

\* line 56: model_answers.get(question, "").strip(); a value that is no
\* str has no strip() and the call raises AttributeError
ModelAnswer(model_answers, question) ==
    LET raw == DictGet(model_answers, question, Str(<<>>))
    IN  IF raw.t = "str"
        THEN [raised |-> FALSE, s |-> strip(raw.s)]
        ELSE [raised |-> TRUE, s |-> <<>>]

\* line 58: model_answer.lower() == expected_answer.lower()
IsCorrect(model_answer, expected_answer) ==
    lower(model_answer) = lower(expected_answer)

\* Detail, with the two answers in each other's place
DetailSwapped(ok, expected_answer, model_answer) ==
    [ verdict |-> IF ok THEN "Correct" ELSE "Incorrect",
      expected |-> model_answer,
      model |-> expected_answer ]

\* lines 60-62 and 66-68: the text stored in details[question]: the mark,
\* the expected answer and the (stripped) answer of the model
Detail(ok, expected_answer, model_answer) ==
    [ verdict |-> IF ok THEN "Correct" ELSE "Incorrect",
      expected |-> expected_answer,
      model |-> model_answer ]

\* round(x, 2) of the rational n / d >= 0, in hundredths: the nearest
\* hundredth, a tie going to the even one
RoundHundredths(n, d) ==
    LET q == (100 * n) \div d
        r == (100 * n) % d
    IN  IF 2 * r < d THEN q
        ELSE IF 2 * r > d THEN q + 1
        ELSE IF q % 2 = 0 THEN q ELSE q + 1

\* Score, truncating to two decimals where the code rounds
ScoreTruncated(correct, total) ==
    IF total > 0 THEN (1000 * correct) \div total ELSE 0

\* line 71: round((correct / total) * 10, 2) if total > 0 else 0
Score(correct, total) ==
    IF total > 0 THEN RoundHundredths(10 * correct, total) ELSE 0

\* lines 55-68: the loop over expected_answers.items(), from entry i on
RECURSIVE CompareLoop(_, _, _, _)
CompareLoop(expected_answers, model_answers, i, acc) ==
    IF acc.raised \/ i > Len(expected_answers) THEN acc
    ELSE
        LET question == expected_answers[i].k
            expected_answer == expected_answers[i].v
            got == ModelAnswer(model_answers, question)
            ok == IsCorrect(got.s, expected_answer)
        IN  IF got.raised THEN [acc EXCEPT !.raised = TRUE]
            ELSE CompareLoop(expected_answers, model_answers, i + 1,
                    [ raised |-> FALSE,
                      correct |-> acc.correct + (IF ok THEN 1 ELSE 0),
                      details |-> DictSet(acc.details, question,
                                          Detail(ok, expected_answer, got.s)) ])

\* evaluate_model_response with self.ground_truth[topic] for line 48: a
\* topic the ground truth does not have raises KeyError
evaluate_model_response_indexed(gt, model_data) ==
    LET topic == Get(model_data, "topic", None)
        expected_answers == DictGet(gt, topic, <<>>)
        total == Len(expected_answers)
        out == CompareLoop(expected_answers, ModelAnswers(model_data), 1,
                           [raised |-> FALSE, correct |-> 0, details |-> <<>>])
    IN  [ raised |-> out.raised \/ ~HasKey(gt, topic),
          value |-> [ topic |-> topic,
                      file |-> Get(model_data, "file", None),
                      score |-> Score(out.correct, total),
                      correct |-> out.correct,
                      total |-> total,
                      details |-> out.details ] ]

\* lines 28-80: evaluate_model_response; raised when the call raises
evaluate_model_response(gt, model_data) ==
    LET expected_answers == ExpectedAnswers(gt, model_data)
        total == Len(expected_answers)
        out == CompareLoop(expected_answers, ModelAnswers(model_data), 1,
                           [raised |-> FALSE, correct |-> 0, details |-> <<>>])
    IN  [ raised |-> out.raised,
          value |-> [ topic |-> Get(model_data, "topic", None),
                      file |-> Get(model_data, "file", None),
                      score |-> Score(out.correct, total),
                      correct |-> out.correct,
                      total |-> total,
                      details |-> out.details ] ]

(***************************************************************************)
(* evaluate_all_models, lines 83-96, one loop iteration per step           *)
(***************************************************************************)
\* line 92: results = {}
EvaluateAllModelsCall ==
    /\ pc = "idle"
    /\ Len(returned) < MaxCalls
    /\ pc' = "loop"
    /\ idx' = 1
    /\ results' = <<>>
    /\ UNCHANGED <<ground_truth, answers, returned>>
    /\ UNCHANGED <<loadVars, mainVars, saveVars, promptVars, formatVars>>

\* EvaluateAllModelsStep, had line 56 taken the answers out of the record
\* (model_answers.pop(question, "")) where the code reads them
EvaluateAllModelsStepPop ==
    /\ pc = "loop"
    /\ idx <= Len(answers)
    /\ LET model == answers[idx].k
           data == answers[idx].v
           r == evaluate_model_response(ground_truth, data)
           expected == KeySet(ExpectedAnswers(ground_truth, data))
           popped == IF "questions_answers" \in DOMAIN data
                     THEN [data EXCEPT !.questions_answers =
                              SelectSeq(@, LAMBDA e : e.k \notin expected)]
                     ELSE data
       IN  IF r.raised
           THEN /\ pc' = "raised"
                /\ UNCHANGED <<idx, results, answers>>
           ELSE /\ results' = DictSet(results, model, r.value)
                /\ idx' = idx + 1
                /\ pc' = pc
                /\ answers' = [answers EXCEPT ![idx].v = popped]
    /\ UNCHANGED <<ground_truth, returned>>
    /\ UNCHANGED <<loadVars, mainVars, saveVars, promptVars, formatVars>>

\* lines 93-95: results[model] = self.evaluate_model_response(data); an
\* exception of evaluate_model_response leaves evaluate_all_models
EvaluateAllModelsStep ==
    /\ pc = "loop"
    /\ idx <= Len(answers)
    /\ LET model == answers[idx].k
           r == evaluate_model_response(ground_truth, answers[idx].v)
       IN  IF r.raised
           THEN /\ pc' = "raised"
                /\ UNCHANGED <<idx, results>>
           ELSE /\ results' = DictSet(results, model, r.value)
                /\ idx' = idx + 1
                /\ pc' = pc
    /\ UNCHANGED <<ground_truth, answers, returned>>
    /\ UNCHANGED <<loadVars, mainVars, saveVars, promptVars, formatVars>>

\* line 96: return results
EvaluateAllModelsReturn ==
    /\ pc = "loop"
    /\ idx > Len(answers)
    /\ returned' = Append(returned, results)
    /\ pc' = "idle"
    /\ UNCHANGED <<ground_truth, answers, idx, results>>
    /\ UNCHANGED <<loadVars, mainVars, saveVars, promptVars, formatVars>>

(***************************************************************************)
(* load_responses_from_directory (src/LogIA/evaluate_models.py, 27-50)     *)
(*                                                                         *)
(* A file of the listing is a record: name, json (whether the name ends    *)
(* with ".json"), kind ("unreadable": open() raises; "unparsable":         *)
(* json.load raises; "array": the JSON is no object; "object") and, for an *)
(* object, content.                                                        *)
(***************************************************************************)
\* line 46: `if model`, for a model that is a string or None
Truthy(model) == model # None /\ model # ""

\* LoadFile, had line 46 been left out: every object is stored
LoadFileUnchecked(resp, out, file) ==
    IF ~file.json THEN [responses |-> resp, printed |-> out]
    ELSE IF file.kind # "object"
    THEN [responses |-> resp, printed |-> Append(out, file.name)]
    ELSE [responses |-> DictSet(resp, Get(file.content, "model", None), file.content),
          printed |-> out]

\* LoadFile, had the first file of a model been kept
\* (responses.setdefault(model, content))
LoadFileFirstWins(resp, out, file) ==
    IF ~file.json THEN [responses |-> resp, printed |-> out]
    ELSE IF file.kind # "object"
    THEN [responses |-> resp, printed |-> Append(out, file.name)]
    ELSE LET model == Get(file.content, "model", None)
         IN  IF Truthy(model) /\ ~HasKey(resp, model)
             THEN [responses |-> DictSet(resp, model, file.content), printed |-> out]
             ELSE [responses |-> resp, printed |-> out]

\* lines 39-49, the body of the loop for one file: a name that does not end
\* with ".json" is passed over (39-40); open(), json.load() and
\* content.get() raising are caught and printed (42-44, 48-49); an object
\* is stored under its model when that is truthy (45-47)
LoadFile(resp, out, file) ==
    IF ~file.json THEN [responses |-> resp, printed |-> out]
    ELSE IF file.kind # "object"
    THEN [responses |-> resp, printed |-> Append(out, file.name)]
    ELSE LET model == Get(file.content, "model", None)
         IN  IF Truthy(model)
             THEN [responses |-> DictSet(resp, model, file.content), printed |-> out]
             ELSE [responses |-> resp, printed |-> out]

\* lines 37-38: responses = {}; os.listdir raises when there is no directory
LoadResponsesCall ==
    /\ lpc = "idle"
    /\ IF dir_exists
       THEN /\ lpc' = "scan"
            /\ file_idx' = 1
            /\ responses' = <<>>
       ELSE /\ lpc' = "raised"
            /\ UNCHANGED <<file_idx, responses>>
    /\ UNCHANGED <<dir_exists, directory, printed>>
    /\ UNCHANGED <<evalVars, mainVars, saveVars, promptVars, formatVars>>

\* lines 38-49: one iteration of the loop
LoadResponsesStep ==
    /\ lpc = "scan"
    /\ file_idx <= Len(directory)
    /\ LET r == LoadFile(responses, printed, directory[file_idx])
       IN  /\ responses' = r.responses
           /\ printed' = r.printed
    /\ file_idx' = file_idx + 1
    /\ UNCHANGED <<dir_exists, directory, lpc>>
    /\ UNCHANGED <<evalVars, mainVars, saveVars, promptVars, formatVars>>

\* line 50: return responses
LoadResponsesReturn ==
    /\ lpc = "scan"
    /\ file_idx > Len(directory)
    /\ lpc' = "done"
    /\ UNCHANGED <<dir_exists, directory, file_idx, responses, printed>>
    /\ UNCHANGED <<evalVars, mainVars, saveVars, promptVars, formatVars>>

(***************************************************************************)
(* The parts of the state a specification does not run                     *)
(***************************************************************************)
EvaluatorNotBuilt ==
    /\ ground_truth = <<>>
    /\ answers = <<>>
    /\ pc = "idle"
    /\ idx = 0
    /\ results = <<>>
    /\ returned = <<>>

LoaderNotCalled ==
    /\ dir_exists = TRUE
    /\ directory = <<>>
    /\ lpc = "idle"
    /\ file_idx = 0
    /\ responses = <<>>
    /\ printed = <<>>

MainNotCalled ==
    /\ option = ""
    /\ eval_mode = ""
    /\ mpc = "off"
    /\ gt_exists = TRUE
    /\ reference_model = None
    /\ abort_cause = ""
    /\ judge_idx = 0
    /\ judge_calls = <<>>
    /\ judge_failed = {}
    /\ judge_results = <<>>

NothingSaved ==
    /\ clock = 0
    /\ disk = <<>>
    /\ writes = <<>>

PromptNotCalled ==
    /\ tables = <<>>
    /\ logs = <<>>
    /\ topic_arg = ""
    /\ prompt = <<>>
    /\ ppc = "off"

FormatNotCalled ==
    /\ questions_arg = <<>>
    /\ response_text = <<>>
    /\ formatted = <<>>
    /\ fpc = "off"

(***************************************************************************)
(* Inputs: the topic catalog, ground truths and answer records             *)
(***************************************************************************)
\* a ground-truth key that differs from the catalog's text of Q1
DriftedQuestion == "Q1x"

\* dict(zip(keys, values))
Zip(keys, values) == [i \in 1..Len(keys) |-> Entry(keys[i], values[i])]

\* the sequences of length n over S
SeqsOf(S, n) == [1..n -> S]

ExpectedPool == { <<"Y">>, <<"y", " ">>, <<>>, <<" ">> }

ShortKeyLists ==
    { <<>>, <<"Q1">>, <<"Q1", "Q2">>, <<DriftedQuestion>>, <<DriftedQuestion, "Q2">> }

LongKeyLists ==
    { <<"Q1", "Q2", "Q3">>, <<"Q1", "Q2", "Q3", "Q4">>,
      <<"Q1", "Q2", "Q3", DriftedQuestion>> }

\* the ground truths: none at all, or expected answers for topic T1
GroundTruths ==
    { <<>> }
    \cup UNION { { <<Entry("T1", Zip(ks, vs))>> : vs \in SeqsOf(ExpectedPool, Len(ks)) } :
                   ks \in ShortKeyLists }
    \cup { <<Entry("T1", Zip(ks, [i \in 1..Len(ks) |-> <<"Y">>]))>> : ks \in LongKeyLists }

\* what a record may hold for a question: nothing, a string, or JSON null
Missing == [t |-> "missing", s |-> <<>>]

AnswerPool == { Missing, Str(<<" ", "Y">>), Str(<<"n">>), Null }

\* the questions_answers that answers the questions qs by choice[i], the
\* questions with nothing left out
QuestionsAnswers(qs, choice) ==
    SelectSeq(Zip(qs, choice), LAMBDA e : e.v # Missing)

\* the records of one model: per-question records for topic T1, a freeform
\* record (an answer string, no questions_answers), records of a topic the
\* ground truth does not have, and records with no topic
Records(m) ==
    LET base == [model |-> m, file |-> "logs.json"]
        qs1 == DictAt(QUESTIONS, "T1")
        qa5 == <<Entry("Q5", Str(<<"n">>))>>
    IN  { base @@ [topic |-> "T1", questions_answers |-> QuestionsAnswers(qs1, c)] :
            c \in SeqsOf(AnswerPool, Len(qs1)) }
        \cup { base @@ [topic |-> "T1", answer |-> <<"Y">>],
               base @@ [topic |-> "T2", questions_answers |-> qa5],
               base @@ [topic |-> "T2", questions_answers |-> <<Entry("Q5", Null)>>],
               base @@ [questions_answers |-> qa5],
               base @@ [answer |-> <<"Y">>] }

\* a few records of each kind, for the evaluations of several models
FewRecords(m) ==
    LET base == [model |-> m, file |-> "logs.json"]
        qs == <<"Q1", "Q2">>
    IN  { base @@ [topic |-> "T1", questions_answers |-> QuestionsAnswers(qs, c)] :
            c \in { <<Str(<<" ", "Y">>), Str(<<"n">>)>>,
                    <<Str(<<"n">>), Missing>>,
                    <<Str(<<" ", "Y">>), Null>> } }
        \cup { base @@ [topic |-> "T1", answer |-> <<"Y">>],
               base @@ [topic |-> "T2", questions_answers |-> <<Entry("Q5", Str(<<"n">>))>>] }

FewGroundTruths ==
    { <<Entry("T1", Zip(<<"Q1", "Q2">>, vs))>> :
        vs \in { <<<<"Y">>, <<"n">>>>, <<<<"y", " ">>, <<>>>> } }

\* GroundTruthEvaluator(answers_dict, ground_truth_dict), lines 16-25: one
\* model with any record and any ground truth, or no model, or two models
\* in either order
EvaluatorInputs ==
    { [gt |-> g, answers |-> <<Entry(m, r)>>] :
        g \in GroundTruths, m \in {"m1"}, r \in Records("m1") }
    \cup { [gt |-> g, answers |-> <<>>] : g \in FewGroundTruths }
    \cup UNION { { [gt |-> g, answers |-> <<Entry(p[1], r1), Entry(p[2], r2)>>] :
                     g \in FewGroundTruths, r1 \in FewRecords(p[1]), r2 \in FewRecords(p[2]) } :
                 p \in { <<"m1", "m2">>, <<"m2", "m1">> } }

Init ==
    /\ \E e \in EvaluatorInputs :
         /\ ground_truth = e.gt
         /\ answers = e.answers
    /\ pc = "idle"
    /\ idx = 0
    /\ results = <<>>
    /\ returned = <<>>
    /\ LoaderNotCalled
    /\ MainNotCalled
    /\ NothingSaved
    /\ PromptNotCalled
    /\ FormatNotCalled

Next ==
    \/ EvaluateAllModelsCall
    \/ EvaluateAllModelsStep
    \/ EvaluateAllModelsReturn

Spec == Init /\ [][Next]_vars

\* the contents a response file may have
Content(m, a) ==
    [ model |-> m, file |-> "logs.json", topic |-> "T1",
      questions_answers |-> <<Entry("Q1", Str(a))>> ]

NoModelContent ==
    [ file |-> "logs.json", topic |-> "T1",
      questions_answers |-> <<Entry("Q1", Str(<<"n">>))>> ]

\* the files a directory may hold, yet to be named
FilePool ==
    { [json |-> FALSE, kind |-> "object", content |-> Content("m1", <<"Y">>)],
      [json |-> TRUE, kind |-> "unreadable"],
      [json |-> TRUE, kind |-> "unparsable"],
      [json |-> TRUE, kind |-> "array"],
      [json |-> TRUE, kind |-> "object", content |-> NoModelContent],
      [json |-> TRUE, kind |-> "object", content |-> Content("", <<"Y">>)],
      [json |-> TRUE, kind |-> "object", content |-> Content("m1", <<"Y">>)],
      [json |-> TRUE, kind |-> "object", content |-> Content("m1", <<"n">>)],
      [json |-> TRUE, kind |-> "object", content |-> Content("m2", <<"Y">>)] }

\* the listings of at most MaxFiles files, the i-th file named i
Directories ==
    UNION { { [i \in 1..n |-> fs[i] @@ [name |-> i]] : fs \in SeqsOf(FilePool, n) } :
            n \in 0..MaxFiles }

InitLoad ==
    /\ EvaluatorNotBuilt
    /\ dir_exists \in BOOLEAN
    /\ directory \in Directories
    /\ lpc = "idle"
    /\ file_idx = 0
    /\ responses = <<>>
    /\ printed = <<>>
    /\ MainNotCalled
    /\ NothingSaved
    /\ PromptNotCalled
    /\ FormatNotCalled

NextLoad ==
    \/ LoadResponsesCall
    \/ LoadResponsesStep
    \/ LoadResponsesReturn

SpecLoad == InitLoad /\ [][NextLoad]_vars

(***************************************************************************)
(* What the claims speak of                                                *)
(***************************************************************************)
\* every (model, result) pair evaluate_model_response has produced so far
Evaluated ==
    {results[i] : i \in 1..Len(results)}
    \cup UNION { {returned[c][i] : i \in 1..Len(returned[c])} : c \in 1..Len(returned) }

\* the record the result of model m was computed from
RecordOf(m) == DictAt(answers, m)

\* the topic of a record, None when it has none
TopicOf(data) == IF "topic" \in DOMAIN data THEN data.topic ELSE None

\* the ground truth's question -> expected answer entries for a record
GroundTruthOf(data) ==
    IF HasKey(ground_truth, TopicOf(data)) THEN DictAt(ground_truth, TopicOf(data)) ELSE <<>>

\* whether the record answers question q with a string, and that string
Answered(data, q) ==
    /\ "questions_answers" \in DOMAIN data
    /\ HasKey(data.questions_answers, q)

\* trimmed and case-folded, as the claims understand a normalised answer
Normalised(s) == lower(strip(s))

\* the number of details entries marked correct
Marked(details) == Cardinality({i \in 1..Len(details) : details[i].v.verdict = "Correct"})

\* C1: for every ground-truth question the record answers, the verdict is
\* 'correct' exactly when the produced and the expected answer are equal
\* after trimming surrounding whitespace and ignoring case, whichever of the
\* two carries the whitespace.
C1_VerdictIffEqualNormalised ==
    \A e \in Evaluated :
        LET data == RecordOf(e.k)
            gt == GroundTruthOf(data)
        IN  \A i \in 1..Len(gt) :
                Answered(data, gt[i].k) =>
                    ( DictAt(e.v.details, gt[i].k).verdict = "Correct"
                        <=> Normalised(DictAt(data.questions_answers, gt[i].k).s)
                              = Normalised(gt[i].v) )

\* C2: when total > 0 the score is correct / total * 10 rounded to two
\* decimals: the hundredth nearest to it (3 of 4 gives 7.5, 1 of 2 gives
\* 5.0), correct being the number of questions marked correct and total the
\* number of expected answers of the topic.
C2_ScoreIsRoundedRatio ==
    \A e \in Evaluated :
        LET r == e.v
            d == r.score * r.total - 1000 * r.correct
        IN  r.total > 0 =>
                /\ r.total = Len(GroundTruthOf(RecordOf(e.k)))
                /\ r.correct = Marked(r.details)
                /\ 2 * d <= r.total
                /\ -2 * d <= r.total
                /\ (r.correct = 3 /\ r.total = 4 => r.score = 750)
                /\ (r.correct = 1 /\ r.total = 2 => r.score = 500)

\* C2's case: two of three correct, where the ratio is rounded up to 6.67
C2_Witness ==
    \E e \in Evaluated : e.v.total = 3 /\ e.v.correct = 2 /\ e.v.score = 667

\* C3: when the ground truth has no expected answers for the record's topic
\* (an unknown topic or no topic included) the result has score 0, correct
\* 0, total 0 and empty details, and the call does not raise; an all-wrong
\* result has the same score and correct and differs in total.
C3_ZeroCoverage ==
    /\ \A e \in Evaluated :
          /\ GroundTruthOf(RecordOf(e.k)) = <<>> =>
                e.v.score = 0 /\ e.v.correct = 0 /\ e.v.total = 0 /\ e.v.details = <<>>
          /\ (e.v.total > 0 /\ e.v.correct = 0) => e.v.score = 0
          /\ e.v.total = 0 <=> GroundTruthOf(RecordOf(e.k)) = <<>>
    /\ pc = "raised" => GroundTruthOf(answers[idx].v) # <<>>

\* C3's case: a result for a record that names no topic
C3_Witness ==
    \E e \in Evaluated :
        /\ "topic" \notin DOMAIN RecordOf(e.k)
        /\ e.v.total = 0
        /\ e.v.score = 0

\* C4: details has exactly one entry per ground-truth question of the topic
\* and no other key, each entry holds the verdict, the expected and the
\* produced answer, total is the number of entries, correct the number of
\* entries marked correct, 0 <= correct <= total, 0 <= score <= 10, and
\* score = 10 exactly when correct = total > 0.
C4_ResultShape ==
    \A e \in Evaluated :
        LET r == e.v
            data == RecordOf(e.k)
            gt == GroundTruthOf(data)
        IN  /\ DictKeys(r.details) = DictKeys(gt)
            /\ \A i \in 1..Len(gt) :
                  /\ r.details[i].v.verdict \in {"Correct", "Incorrect"}
                  /\ r.details[i].v.expected = gt[i].v
                  /\ r.details[i].v.model =
                        IF Answered(data, gt[i].k)
                        THEN strip(DictAt(data.questions_answers, gt[i].k).s)
                        ELSE <<>>
            /\ r.total = Len(r.details)
            /\ r.correct = Marked(r.details)
            /\ 0 <= r.correct /\ r.correct <= r.total
            /\ 0 <= r.score /\ r.score <= 1000
            /\ r.score = 1000 <=> (r.correct = r.total /\ r.total > 0)

\* C4's case: the end-to-end scenario, one of two correct, score 5.0
C4_Witness ==
    \E e \in Evaluated :
        /\ e.v.total = 2 /\ e.v.correct = 1 /\ e.v.score = 500
        /\ e.v.details[1].v.verdict = "Correct"
        /\ e.v.details[1].v.model # <<>>
        /\ e.v.details[2].v.verdict = "Incorrect"
        /\ e.v.details[2].v.model # <<>>

\* C5: a ground-truth question the record does not answer is scored as
\* incorrect with an empty produced answer, whatever the expected answer,
\* an empty or whitespace-only one included, and never raises.
C5_MissingIsIncorrect ==
    \A e \in Evaluated :
        LET data == RecordOf(e.k)
            gt == GroundTruthOf(data)
        IN  \A i \in 1..Len(gt) :
                ~Answered(data, gt[i].k) =>
                    /\ DictAt(e.v.details, gt[i].k).verdict = "Incorrect"
                    /\ DictAt(e.v.details, gt[i].k).model = <<>>

\* the catalog's questions of a topic, none for a topic it does not have
CatalogQuestions(topic) ==
    LET qs == IF HasKey(QUESTIONS, topic) THEN DictAt(QUESTIONS, topic) ELSE <<>>
    IN  {qs[i] : i \in 1..Len(qs)}

\* whether the ground truth has drifted from the catalog for a record: its
\* topic is no topic of the ground truth, or a ground-truth key of the
\* topic is no question of the catalog
Drifted(data) ==
    \/ ~HasKey(ground_truth, TopicOf(data))
    \/ ~(KeySet(GroundTruthOf(data)) \subseteq CatalogQuestions(TopicOf(data)))

\* C6: drift between the catalog and the ground truth, of the
\* topic name or of a question text, gives total = 0; total > 0 only if the
\* ground-truth keys of the topic are questions of the catalog.
C6_DriftGivesZeroTotal ==
    \A e \in Evaluated : Drifted(RecordOf(e.k)) => e.v.total = 0

\* C6, amended: total is the number of ground-truth keys of the record's
\* topic whatever the catalog holds; a topic the ground truth does not have
\* gives total = 0 and no error; a ground-truth key that is no question of
\* the catalog still counts in total and, the record not answering it, is
\* compared with the empty answer: incorrect unless the expected answer is
\* empty.
C6_TopicDriftGivesZeroTotal ==
    /\ \A e \in Evaluated :
          LET data == RecordOf(e.k)
              gt == GroundTruthOf(data)
          IN  /\ e.v.total = Len(gt)
              /\ ~HasKey(ground_truth, TopicOf(data)) => e.v.total = 0
              /\ \A i \in 1..Len(gt) :
                    (gt[i].k \notin CatalogQuestions(TopicOf(data))
                        /\ ~Answered(data, gt[i].k)) =>
                        /\ e.v.total > 0
                        /\ DictAt(e.v.details, gt[i].k).model = <<>>
                        /\ DictAt(e.v.details, gt[i].k).verdict = "Incorrect"
                              <=> gt[i].v # <<>>
    /\ pc = "raised" => HasKey(ground_truth, TopicOf(answers[idx].v))

\* C6's case: a result whose ground truth holds a key that is no question
\* of the catalog, counted in total
C6_Witness ==
    \E e \in Evaluated :
        /\ HasKey(e.v.details, DriftedQuestion)
        /\ e.v.total > 0
        /\ Drifted(RecordOf(e.k))

\* C7: calling evaluate_all_models again on the same evaluator returns the
\* same mapping, and no call changes the answers or the ground truth.
C7_Idempotent ==
    /\ [](\A i, j \in 1..Len(returned) : returned[i] = returned[j])
    /\ [][answers' = answers /\ ground_truth' = ground_truth]_vars

\* C7's case: two calls have returned, each with the results of two models
C7_Witness ==
    /\ Len(returned) = 2
    /\ Len(returned[1]) = 2
    /\ \E i \in 1..2 : returned[1][i].v.total > 0

\* a file the loader is meant to take: a .json file that parses to an
\* object with a non-empty model identifier
Valid(file) ==
    /\ file.json
    /\ file.kind = "object"
    /\ "model" \in DOMAIN file.content
    /\ file.content.model # ""

\* the files the loop has been through
Scanned == IF lpc = "done" THEN 1..Len(directory) ELSE 1..(file_idx - 1)

\* C8: no single file makes load_responses_from_directory raise: whatever
\* mix of valid files, unparsable files and files whose JSON is no object
\* or has no model, it returns a mapping holding exactly the model
\* identifiers of the valid files, each with the parsed content of such a
\* file, and a bad file adds no entry.
C8_LoadsExactlyValidFiles ==
    /\ lpc = "raised" => ~dir_exists
    /\ lpc \in {"scan", "done"} =>
          /\ KeySet(responses) = {directory[i].content.model : i \in {j \in Scanned : Valid(directory[j])}}
          /\ \A e \in 1..Len(responses) :
                \E i \in Scanned :
                    /\ Valid(directory[i])
                    /\ directory[i].content.model = responses[e].k
                    /\ directory[i].content = responses[e].v

\* C8's case: the loader has returned from a directory with a valid file, a
\* file that does not parse and an object with no model
C8_Witness ==
    /\ lpc = "done"
    /\ Len(responses) = 1
    /\ \E i, j, k \in 1..Len(directory) :
          /\ Valid(directory[i])
          /\ directory[j].json /\ directory[j].kind = "unparsable"
          /\ directory[k].json /\ directory[k].kind = "object"
          /\ "model" \notin DOMAIN directory[k].content

\* C9: every .json file the loader skips has a message printed for it, a
\* file that fails to parse and a file that parses but has no (non-empty)
\* model identifier alike.
C9_EverySkipIsPrinted ==
    lpc = "done" =>
        \A i \in 1..Len(directory) :
            (directory[i].json /\ ~Valid(directory[i])) =>
                \E k \in 1..Len(printed) : printed[k] = directory[i].name

\* the last scanned valid file that declares model m
LastOf(m) ==
    CHOOSE i \in Scanned :
        /\ Valid(directory[i]) /\ directory[i].content.model = m
        /\ \A j \in Scanned :
              (Valid(directory[j]) /\ directory[j].content.model = m) => j <= i

\* C10: when several files declare the same model identifier the mapping
\* holds, for that identifier, the content of the file met last in scan
\* order, and it has exactly one entry per distinct identifier.
C10_LastWriteWins ==
    lpc \in {"scan", "done"} =>
        /\ \A e \in 1..Len(responses) :
              responses[e].v = directory[LastOf(responses[e].k)].content
        /\ Cardinality(KeySet(responses)) = Len(responses)
        /\ KeySet(responses) = {directory[i].content.model : i \in {j \in Scanned : Valid(directory[j])}}

\* C10's case: two files declared the same model with different contents
\* and the loader has returned
C10_Witness ==
    /\ lpc = "done"
    /\ \E i, j \in 1..Len(directory) :
          /\ i < j
          /\ Valid(directory[i]) /\ Valid(directory[j])
          /\ directory[i].content.model = directory[j].content.model
          /\ directory[i].content # directory[j].content
          /\ DictAt(responses, directory[j].content.model) = directory[j].content

(***************************************************************************)
(* Claims about the exact-match strategy as a whole (specification Spec)   *)
(***************************************************************************)
\* whether a record has the per-question shape
HasQuestionsAnswers(data) == "questions_answers" \in DOMAIN data

\* C18: a record that lacks questions_answers makes the exact-match
\* evaluation fail for that record: no result is ever computed for it.
C18_FreeformRecordFails ==
    \A i \in 1..Len(answers) :
        ~HasQuestionsAnswers(answers[i].v) =>
            \A e \in Evaluated : e.k # answers[i].k

\* C19: the models are evaluated one at a time in the order of the
\* responses mapping (the results so far are keyed by the first models of
\* that order), a returned mapping has the keys of the responses in the same
\* order, and the result of each model is the evaluation of that model's
\* own record against the ground truth, whatever else is in the mapping.
C19_InOrderAndIndependent ==
    /\ pc = "loop" =>
          /\ Len(results) = idx - 1
          /\ DictKeys(results) = SubSeq(DictKeys(answers), 1, idx - 1)
    /\ \A c \in 1..Len(returned) : DictKeys(returned[c]) = DictKeys(answers)
    /\ \A e \in Evaluated :
          e.v = evaluate_model_response(ground_truth, RecordOf(e.k)).value

\* two models, loaded in the order m2, m1 and with different outcomes, have
\* been evaluated and returned
C19_Witness ==
    /\ Len(returned) >= 1
    /\ DictKeys(returned[1]) = <<"m2", "m1">>
    /\ returned[1][1].v.correct # returned[1][2].v.correct

(***************************************************************************)
(* format_model_response (src/LogIA/generate_model_all_topics.py, 30-62)   *)
(***************************************************************************)
MaxText == 4

\* str.strip(chars): the characters of chars removed from both ends
RECURSIVE lstripChars(_, _)
lstripChars(s, chars) ==
    IF s # <<>> /\ Head(s) \in chars THEN lstripChars(Tail(s), chars) ELSE s

RECURSIVE rstripChars(_, _)
rstripChars(s, chars) ==
    IF s # <<>> /\ s[Len(s)] \in chars
    THEN rstripChars(SubSeq(s, 1, Len(s) - 1), chars)
    ELSE s

stripChars(s, chars) == rstripChars(lstripChars(s, chars), chars)

\* str.split("\n"): the pieces between the newlines, empty ones included
RECURSIVE split(_)
split(s) ==
    IF \A i \in 1..Len(s) : s[i] # "\n"
    THEN <<s>>
    ELSE LET n == CHOOSE i \in 1..Len(s) :
                      s[i] = "\n" /\ \A j \in 1..(i - 1) : s[j] # "\n"
         IN  <<SubSeq(s, 1, n - 1)>> \o split(SubSeq(s, n + 1, Len(s)))

\* line 54
NoAnswer == <<"(", "N", "o", " ", "a", "n", "s", "w", "e", "r", ")">>

\* line 47: [line.strip("- ").strip()
\*           for line in response_text.strip().split("\n") if line.strip()]
ResponseLines(text) ==
    LET kept == SelectSeq(split(strip(text)), LAMBDA line : strip(line) # <<>>)
    IN  [i \in 1..Len(kept) |-> strip(stripChars(kept[i], {"-", " "}))]

\* lines 50-54: the loop over enumerate(questions)
RECURSIVE QuestionsAnswersLoop(_, _, _, _)
QuestionsAnswersLoop(questions, lines, i, questions_answers) ==
    IF i > Len(questions) THEN questions_answers
    ELSE QuestionsAnswersLoop(questions, lines, i + 1,
            DictSet(questions_answers, questions[i],
                    IF i <= Len(lines) THEN Str(lines[i]) ELSE Str(NoAnswer)))

\* lines 30-62
format_model_response(model, file, topic, questions, text, timestamp) ==
    [model |-> model, file |-> file, topic |-> topic,
     questions_answers |->
        QuestionsAnswersLoop(questions, ResponseLines(text), 1, <<>>),
     timestamp |-> timestamp]

\* save_response, lines 128-157, called from main (line 232) with the
\* questions of the topic
SaveResponse ==
    /\ fpc = "ready"
    /\ \E topic \in {"T1", "T2", "T9"} :
         /\ DictGet(QUESTIONS, topic, <<>>) = questions_arg
         /\ formatted' = format_model_response("m1", "logs.json", topic,
                             questions_arg, response_text, "20250101_000000")
    /\ fpc' = "done"
    /\ UNCHANGED <<questions_arg, response_text>>
    /\ UNCHANGED <<evalVars, loadVars, mainVars, saveVars, promptVars>>

\* the raw responses: every text of at most MaxText characters
ResponseChars == {"a", "-", " ", "\t", "\n"}

ResponseTexts == UNION { SeqsOf(ResponseChars, n) : n \in 0..MaxText }

InitFormat ==
    /\ EvaluatorNotBuilt
    /\ LoaderNotCalled
    /\ MainNotCalled
    /\ NothingSaved
    /\ PromptNotCalled
    /\ questions_arg \in {DictGet(QUESTIONS, topic, <<>>) : topic \in {"T1", "T2", "T9"}}
    /\ response_text \in ResponseTexts
    /\ formatted = <<>>
    /\ fpc = "ready"

NextFormat == SaveResponse

SpecFormat == InitFormat /\ [][NextFormat]_vars

\* the lines of the raw response that hold something else than whitespace
NonBlankLines(text) ==
    SelectSeq(split(text), LAMBDA line : \E i \in 1..Len(line) : ~IsSpace(line[i]))

\* a line with its surrounding '-' and space characters removed
Cleaned(line) == stripChars(line, {"-", " ", "\t"})

\* C20: the returned questions_answers has exactly the questions as keys;
\* the i-th question is mapped to the i-th non-blank line of the raw
\* response with its surrounding '-' and space characters removed, a
\* question beyond the non-blank lines to '(No answer)'; lines beyond the
\* questions appear nowhere.
C20_QuestionsMappedToLines ==
    fpc = "done" =>
        LET qa == formatted.questions_answers
            lines == NonBlankLines(response_text)
        IN  /\ DictKeys(qa) = questions_arg
            /\ \A i \in 1..Len(questions_arg) :
                 qa[i].v = IF i <= Len(lines) THEN Str(Cleaned(lines[i]))
                           ELSE Str(NoAnswer)

(***************************************************************************)
(* Dataset.generate_prompt and the catalog lookups                         *)
(* (src/LogIA/src/dataset.py, 172-226)                                     *)
(*                                                                         *)
(* A prompt is a str as a sequence of pieces: a log record (Log(i), i the   *)
(* record) or a text (Text(s): a question, a heading, a template).  A      *)
(* lookup returns its value and the tables as it leaves them; the value of *)
(* ONE_SHOT_EXAMPLES.get is <<>> for None and <<example>> otherwise.       *)
(***************************************************************************)
MaxLogs == 46

\* line 211: the size of the sample
Cap == 44

Text(s) == [log |-> 0, text |-> s]

Log(i) == [log |-> i, text |-> ""]

\* lines 43-76
RESPONSE_STYLES ==
    << Entry("T1", <<Text("style of T1")>>), Entry("T2", <<Text("style of T2")>>) >>

\* lines 82-117: the logs of the example are records of their own
ONE_SHOT_EXAMPLES ==
    << Entry("T1", [logs |-> <<101, 102, 103>>, answer |-> <<Text("answer of the example")>>]) >>

Catalog ==
    [QUESTIONS |-> QUESTIONS, RESPONSE_STYLES |-> RESPONSE_STYLES,
     ONE_SHOT_EXAMPLES |-> ONE_SHOT_EXAMPLES]

\* get_questions_by_topic, had it been QUESTIONS.setdefault(topic, [])
get_questions_by_topic_setdefault(tbl, topic) ==
    [value |-> DictGet(tbl.QUESTIONS, topic, <<>>),
     tables |-> IF HasKey(tbl.QUESTIONS, topic) THEN tbl
                ELSE [tbl EXCEPT !.QUESTIONS = DictSet(@, topic, <<>>)]]

\* lines 172-182: QUESTIONS.get(topic, [])
get_questions_by_topic(tbl, topic) ==
    [value |-> DictGet(tbl.QUESTIONS, topic, <<>>), tables |-> tbl]

\* lines 184-194: RESPONSE_STYLES.get(topic, "")
get_response_style(tbl, topic) ==
    [value |-> DictGet(tbl.RESPONSE_STYLES, topic, <<>>), tables |-> tbl]

\* line 216: ONE_SHOT_EXAMPLES.get(topic)
get_one_shot(tbl, topic) ==
    [value |-> IF HasKey(tbl.ONE_SHOT_EXAMPLES, topic)
               THEN <<DictAt(tbl.ONE_SHOT_EXAMPLES, topic)>>
               ELSE <<>>,
     tables |-> tbl]

\* sep.join(parts), the parts being single pieces
RECURSIVE join(_, _)
join(sep, parts) ==
    IF Len(parts) = 0 THEN <<>>
    ELSE IF Len(parts) = 1 THEN <<parts[1]>>
    ELSE <<parts[1], sep>> \o join(sep, Tail(parts))

\* "\n".join(questions), line 213
JoinQuestions(questions) ==
    join(Text("\n"), [i \in 1..Len(questions) |-> Text(questions[i])])

\* json.dumps(list, indent=2): the records in order between brackets
dumps(list) ==
    <<Text("[")>> \o join(Text(","), [i \in 1..Len(list) |-> Log(list[i])]) \o <<Text("]")>>

\* Sample, had line 211 taken the last records (logs[-44:])
SampleLast(all_logs) ==
    SubSeq(all_logs, IF Len(all_logs) > Cap THEN Len(all_logs) - Cap + 1 ELSE 1,
           Len(all_logs))

\* line 211: self.load_logs(file_name)[:44]
Sample(all_logs) ==
    SubSeq(all_logs, 1, IF Len(all_logs) > Cap THEN Cap ELSE Len(all_logs))

Header ==
    <<Text("Answer the questions strictly following the templates as precisely as possible.\n")>>

ExampleHeader == Text("\n### Example:\n")

RealLogsHeader == Text("\n### Real logs:\n")

\* lines 216-219
ExampleSection(one_shot) ==
    <<ExampleHeader>> \o dumps(one_shot.logs) \o <<Text("\n")>>
        \o one_shot.answer \o <<Text("\n")>>

\* lines 222-223
RealLogsSection(sample) == <<RealLogsHeader>> \o dumps(sample) \o <<Text("\n\n")>>

\* generate_prompt, had the example been added after the real logs
generate_prompt_example_last(tbl, all_logs, topic) ==
    LET style == get_response_style(tbl, topic)
        questions == get_questions_by_topic(style.tables, topic)
        one_shot == get_one_shot(questions.tables, topic)
    IN  [value |-> Header
                   \o RealLogsSection(Sample(all_logs))
                   \o (IF one_shot.value # <<>> THEN ExampleSection(one_shot.value[1]) ELSE <<>>)
                   \o style.value \o JoinQuestions(questions.value),
         tables |-> one_shot.tables]

\* lines 211-225
generate_prompt(tbl, all_logs, topic) ==
    LET style == get_response_style(tbl, topic)
        questions == get_questions_by_topic(style.tables, topic)
        one_shot == get_one_shot(questions.tables, topic)
    IN  [value |-> Header
                   \o (IF one_shot.value # <<>> THEN ExampleSection(one_shot.value[1]) ELSE <<>>)
                   \o RealLogsSection(Sample(all_logs))
                   \o style.value \o JoinQuestions(questions.value),
         tables |-> one_shot.tables]

\* generate_model_all_topics.py line 213: prompt = ds.generate_prompt(...);
\* load_logs (lines 160-170) raises when the file cannot be read or parsed
GeneratePrompt ==
    /\ ppc \in {"ready", "unreadable"}
    /\ IF ppc = "unreadable"
       THEN /\ ppc' = "raised"
            /\ UNCHANGED <<tables, prompt>>
       ELSE LET r == generate_prompt(tables, logs, topic_arg)
            IN  /\ prompt' = r.value
                /\ tables' = r.tables
                /\ ppc' = "prompted"
    /\ UNCHANGED <<logs, topic_arg>>
    /\ UNCHANGED <<evalVars, loadVars, mainVars, saveVars, formatVars>>

\* generate_model_all_topics.py line 214:
\* questions = ds.get_questions_by_topic(topic)
GetQuestionsByTopic ==
    /\ ppc = "prompted"
    /\ LET r == get_questions_by_topic(tables, topic_arg)
       IN  /\ questions_arg' = r.value
           /\ tables' = r.tables
    /\ ppc' = "done"
    /\ UNCHANGED <<logs, topic_arg, prompt, response_text, formatted, fpc>>
    /\ UNCHANGED <<evalVars, loadVars, mainVars, saveVars>>

\* the log files: n records in the order of the file, ascending, descending
\* or alternating between two records
LogFiles ==
    UNION { { [i \in 1..n |-> i], [i \in 1..n |-> n + 1 - i], [i \in 1..n |-> 1 + (i % 2)] } :
            n \in 0..MaxLogs }

Topics == {"T1", "T2", "T9"}

InitPrompt ==
    /\ EvaluatorNotBuilt
    /\ LoaderNotCalled
    /\ MainNotCalled
    /\ NothingSaved
    /\ FormatNotCalled
    /\ tables = Catalog
    /\ topic_arg \in Topics
    /\ prompt = <<>>
    /\ \/ ppc = "ready" /\ logs \in LogFiles
       \/ ppc = "unreadable" /\ logs = <<>>

NextPrompt ==
    \/ GeneratePrompt
    \/ GetQuestionsByTopic

SpecPrompt == InitPrompt /\ [][NextPrompt]_vars

\* the position of a piece in a prompt that holds it once
PositionOf(piece, text) == CHOOSE i \in 1..Len(text) : text[i] = piece

Occurs(piece, text) == \E i \in 1..Len(text) : text[i] = piece

\* the log records a prompt embeds after its real-logs heading, in order
Embedded(text) ==
    LET from == PositionOf(RealLogsHeader, text)
        to == CHOOSE j \in (from + 1)..Len(text) :
                  text[j] = Text("]") /\ \A k \in (from + 1)..(j - 1) : text[k] # Text("]")
        between == SelectSeq(SubSeq(text, from + 2, to - 1), LAMBDA piece : piece # Text(","))
    IN  [i \in 1..Len(between) |-> between[i].log]

Prompted == ppc \in {"prompted", "done"}

\* C15: the prompt embeds exactly the first min(n, 44) records of the loaded
\* sample, in load order, nothing dropped, repeated or re-sorted, and no
\* record beyond the 44th.
C15_EmbedsFirstRecords ==
    Prompted =>
        LET n == Len(logs)
            m == IF n < 44 THEN n ELSE 44
            embedded == Embedded(prompt)
        IN  /\ Len(embedded) = m
            /\ \A i \in 1..m : embedded[i] = logs[i]

\* a file of more than 44 records, not in ascending order, has been sampled
C15_Witness ==
    /\ Prompted
    /\ Len(logs) > 44
    /\ logs[1] > logs[2]
    /\ Len(Embedded(prompt)) = 44

\* whether the catalog has a one-shot example for the topic
HasOneShot(topic) == topic \in KeySet(ONE_SHOT_EXAMPLES)

\* C16: the prompt is, in this order, the instruction header, the worked
\* example (its heading, the example logs, then its expected answer) exactly
\* when the topic has a one-shot example, the real log sample under its
\* heading, the response template of the topic and the questions of the
\* topic in catalog order joined by newlines; with no one-shot example the
\* example heading occurs nowhere.
C16_SectionsInOrder ==
    Prompted =>
        LET example == DictAt(ONE_SHOT_EXAMPLES, topic_arg)
            worked == IF HasOneShot(topic_arg)
                      THEN <<ExampleHeader>> \o dumps(example.logs) \o <<Text("\n")>>
                           \o example.answer \o <<Text("\n")>>
                      ELSE <<>>
            real == <<RealLogsHeader>> \o dumps(Sample(logs)) \o <<Text("\n\n")>>
            template == DictGet(RESPONSE_STYLES, topic_arg, <<>>)
            qs == DictGet(QUESTIONS, topic_arg, <<>>)
        IN  /\ prompt = Header \o worked \o real \o template \o JoinQuestions(qs)
            /\ HasOneShot(topic_arg) <=> Occurs(ExampleHeader, prompt)

\* a prompt with a worked example before a non-empty real log sample, and
\* several questions at its end
C16_Witness ==
    /\ Prompted
    /\ HasOneShot(topic_arg)
    /\ Len(logs) > 1
    /\ PositionOf(ExampleHeader, prompt) < PositionOf(RealLogsHeader, prompt)
    /\ prompt[Len(prompt)] = Text("Q4")

\* C17: for a topic that is not in the catalog get_questions_by_topic
\* returns the empty sequence and _get_response_style the empty string,
\* generate_prompt returns a prompt made of the header and the real logs
\* only, and no lookup ever changes QUESTIONS, RESPONSE_STYLES or
\* ONE_SHOT_EXAMPLES.
C17_LookupsTotalAndPure ==
    /\ tables = Catalog
    /\ topic_arg \notin KeySet(QUESTIONS) =>
          /\ get_questions_by_topic(tables, topic_arg).value = <<>>
          /\ get_response_style(tables, topic_arg).value = <<>>
          /\ Prompted => prompt = Header \o RealLogsSection(Sample(logs))
          /\ ppc = "done" => questions_arg = <<>>

\* a prompt was built and the questions were looked up for a topic that is
\* not in the catalog
C17_Witness ==
    /\ ppc = "done"
    /\ topic_arg \notin KeySet(QUESTIONS)
    /\ Len(logs) > 0
    /\ Len(prompt) > 1

(***************************************************************************)
(* save_results (src/LogIA/evaluate_models.py, 69-81)                      *)
(*                                                                         *)
(* The clock counts whole seconds, the resolution of "%Y%m%d_%H%M%S".  A   *)
(* file name is the pair of the label and the second.                      *)
(***************************************************************************)
MaxClock == 2

MaxSaves == 2

\* lines 77-78: f"results_{base_file_name}_{timestamp}.json"
FileName(base_file_name, now) == [base |-> base_file_name, timestamp |-> now]

\* lines 79-80: open(file_name, "w") and json.dump: an existing file of that
\* name is replaced
save_results(files, now, report, base_file_name) ==
    DictSet(files, FileName(base_file_name, now), report)

\* a second passes
Tick ==
    /\ clock < MaxClock
    /\ clock' = clock + 1
    /\ UNCHANGED <<disk, writes>>
    /\ UNCHANGED <<evalVars, loadVars, mainVars, promptVars, formatVars>>

\* the labels main saves under (lines 136, 152, 169)
Labels == {"groundtruth", "gpt_vs_gpt", "gpt_vs_groundtruth"}

\* the reports of the runs: two different results mappings
Reports == {<<Entry("m1", "first report")>>, <<Entry("m1", "second report")>>}

\* a run (this one or another process) reaches its save_results call
SaveResults ==
    /\ Len(writes) < MaxSaves
    /\ \E label \in Labels, report \in Reports :
         /\ disk' = save_results(disk, clock, report, label)
         /\ writes' = Append(writes, [name |-> FileName(label, clock), report |-> report])
    /\ UNCHANGED clock
    /\ UNCHANGED <<evalVars, loadVars, mainVars, promptVars, formatVars>>

InitSave ==
    /\ EvaluatorNotBuilt
    /\ LoaderNotCalled
    /\ MainNotCalled
    /\ PromptNotCalled
    /\ FormatNotCalled
    /\ clock = 0
    /\ disk = <<>>
    /\ writes = <<>>

NextSave ==
    \/ Tick
    \/ SaveResults

SpecSave == InitSave /\ [][NextSave]_vars

\* C13: any two calls of save_results write to different file names, so
\* every report written is still on disk as it was written.
C13_NeverOverwrites ==
    /\ \A i, j \in 1..Len(writes) : i # j => writes[i].name # writes[j].name
    /\ \A i \in 1..Len(writes) :
          /\ HasKey(disk, writes[i].name)
          /\ DictAt(disk, writes[i].name) = writes[i].report

(***************************************************************************)
(* main (src/LogIA/evaluate_models.py, 110-169)                            *)
(*                                                                         *)
(* A model identifier is a string of the model; Characters gives its       *)
(* characters.  The judge evaluator (src/evaluator_openAI.py) is described *)
(* by the specification only: one judge call per model, a failed call      *)
(* recorded as a placeholder.                                              *)
(***************************************************************************)
Characters(id) ==
    CASE id = "openai_gpt4" -> <<"o", "p", "e", "n", "a", "i", "_", "g", "p", "t", "4">>
      [] id = "GPT4o" -> <<"G", "P", "T", "4", "o">>
      [] id = "phi4" -> <<"p", "h", "i", "4">>
      [] id = "gpt-4" -> <<"g", "p", "t", "-", "4">>
      [] OTHER -> <<>>

\* sub in s
Contains(sub, s) ==
    \E i \in 0..(Len(s) - Len(sub)) : SubSeq(s, i + 1, i + Len(sub)) = sub

\* HasMarker, had line 140 not lowered the identifier ("gpt4" in m)
HasMarkerCaseSensitive(m) == Contains(<<"g", "p", "t", "4">>, Characters(m))

\* line 140: "gpt4" in m.lower()
HasMarker(m) == Contains(<<"g", "p", "t", "4">>, lower(Characters(m)))

\* line 140: next((m for m in responses_dict if ...), None)
RECURSIVE FirstWithMarker(_)
FirstWithMarker(keys) ==
    IF keys = <<>> THEN None
    ELSE IF HasMarker(Head(keys)) THEN Head(keys)
    ELSE FirstWithMarker(Tail(keys))

\* lines 84-105: evaluation_menu
evaluation_menu(opt) ==
    CASE opt = "1" -> "groundtruth"
      [] opt = "2" -> "gpt"
      [] opt = "3" -> "gpt_vs_groundtruth"
      [] OTHER -> "groundtruth"

\* line 121: eval_mode = evaluation_menu(); line 122 then calls
\* load_responses_from_directory
MainMenu ==
    /\ mpc = "start"
    /\ eval_mode' = evaluation_menu(option)
    /\ mpc' = "load"
    /\ lpc' = "idle"
    /\ UNCHANGED <<option, gt_exists, reference_model, abort_cause,
                   judge_idx, judge_calls, judge_failed, judge_results>>
    /\ UNCHANGED <<dir_exists, directory, file_idx, responses, printed>>
    /\ UNCHANGED <<evalVars, saveVars, promptVars, formatVars>>

\* line 122: os.listdir raised inside load_responses_from_directory and
\* nothing in main catches it
MainLoadRaised ==
    /\ mpc = "load"
    /\ lpc = "raised"
    /\ mpc' = "aborted"
    /\ abort_cause' = "responses directory not found"
    /\ UNCHANGED <<option, eval_mode, gt_exists, reference_model,
                   judge_idx, judge_calls, judge_failed, judge_results>>
    /\ UNCHANGED <<evalVars, loadVars, saveVars, promptVars, formatVars>>

\* lines 126-127 and 156-161: load_ground_truth raises FileNotFoundError
\* when the file is missing (lines 63-64), json.load raises when it does
\* not parse (line 66); otherwise the evaluator is built on the responses
\* and the ground truth
MainLoadGroundTruth ==
    /\ mpc = "load"
    /\ lpc = "done"
    /\ eval_mode \in {"groundtruth", "gpt_vs_groundtruth"}
    /\ IF ~gt_exists
       THEN /\ mpc' = "aborted"
            /\ abort_cause' = "ground truth file not found"
            /\ UNCHANGED <<ground_truth, answers, judge_idx>>
       ELSE \/ /\ mpc' = "aborted"
               /\ abort_cause' = "ground truth file does not parse"
               /\ UNCHANGED <<ground_truth, answers, judge_idx>>
            \/ /\ ground_truth' \in FewGroundTruths
               /\ answers' = IF eval_mode = "groundtruth" THEN responses ELSE answers
               /\ mpc' = IF eval_mode = "groundtruth" THEN "evaluate" ELSE "judging"
               /\ judge_idx' = IF eval_mode = "groundtruth" THEN judge_idx ELSE 1
               /\ UNCHANGED abort_cause
    /\ UNCHANGED <<option, eval_mode, gt_exists, reference_model,
                   judge_calls, judge_failed, judge_results>>
    /\ UNCHANGED <<pc, idx, results, returned>>
    /\ UNCHANGED <<loadVars, saveVars, promptVars, formatVars>>

\* line 128: results = evaluator.evaluate_all_models(), up to its loop
MainEvaluate ==
    /\ mpc = "evaluate"
    /\ mpc' = "evaluating"
    /\ pc' = "loop"
    /\ idx' = 1
    /\ results' = <<>>
    /\ UNCHANGED <<ground_truth, answers, returned>>
    /\ UNCHANGED <<option, eval_mode, gt_exists, reference_model, abort_cause,
                   judge_idx, judge_calls, judge_failed, judge_results>>
    /\ UNCHANGED <<loadVars, saveVars, promptVars, formatVars>>

\* line 128: evaluate_all_models raised and nothing in main catches it
MainEvaluateRaised ==
    /\ mpc = "evaluating"
    /\ pc = "raised"
    /\ mpc' = "aborted"
    /\ abort_cause' = "answer is not a string"
    /\ UNCHANGED <<option, eval_mode, gt_exists, reference_model,
                   judge_idx, judge_calls, judge_failed, judge_results>>
    /\ UNCHANGED <<evalVars, loadVars, saveVars, promptVars, formatVars>>

\* lines 130-136: the results are printed and saved
MainSaveGroundTruth ==
    /\ mpc = "evaluating"
    /\ pc = "idle"
    /\ disk' = save_results(disk, clock, returned[1], "groundtruth")
    /\ writes' = Append(writes, [name |-> FileName("groundtruth", clock),
                                 report |-> returned[1]])
    /\ mpc' = "done"
    /\ UNCHANGED clock
    /\ UNCHANGED <<option, eval_mode, gt_exists, reference_model, abort_cause,
                   judge_idx, judge_calls, judge_failed, judge_results>>
    /\ UNCHANGED <<evalVars, loadVars, promptVars, formatVars>>

\* lines 140-145: the reference model is chosen, or the run ends with
\* ValueError("No GPT-4 reference response found.")
MainSelectReference ==
    /\ mpc = "load"
    /\ lpc = "done"
    /\ eval_mode = "gpt"
    /\ reference_model' = FirstWithMarker(DictKeys(responses))
    /\ IF ~Truthy(reference_model')
       THEN /\ mpc' = "aborted"
            /\ abort_cause' = "no reference found"
            /\ UNCHANGED judge_idx
       ELSE /\ mpc' = "judging"
            /\ judge_idx' = 1
            /\ UNCHANGED abort_cause
    /\ UNCHANGED <<option, eval_mode, gt_exists, judge_calls, judge_failed, judge_results>>
    /\ UNCHANGED <<evalVars, loadVars, saveVars, promptVars, formatVars>>

\* what the judge evaluator records for a model
Verdict == [evaluation |-> "the verdict of the judge"]

Unavailable == [evaluation |-> "evaluation not available"]

\* lines 146 and 163: evaluate_models_with_openai and
\* evaluate_models_with_groundtruth_openai, one model per step: the reference
\* model is passed over, any other model gets one judge call, which returns
\* a verdict or fails
JudgeStep ==
    /\ mpc = "judging"
    /\ judge_idx <= Len(responses)
    /\ LET model == responses[judge_idx].k
       IN  IF eval_mode = "gpt" /\ model = reference_model
           THEN UNCHANGED <<judge_calls, judge_failed, judge_results>>
           ELSE /\ judge_calls' = Append(judge_calls, model)
                /\ \E ok \in BOOLEAN :
                     /\ judge_results' =
                          DictSet(judge_results, model, IF ok THEN Verdict ELSE Unavailable)
                     /\ judge_failed' = IF ok THEN judge_failed ELSE judge_failed \cup {model}
    /\ judge_idx' = judge_idx + 1
    /\ UNCHANGED <<option, eval_mode, mpc, gt_exists, reference_model, abort_cause>>
    /\ UNCHANGED <<evalVars, loadVars, saveVars, promptVars, formatVars>>

\* line 152 and 169: the label of the report
JudgeLabel(mode) == IF mode = "gpt" THEN "gpt_vs_gpt" ELSE "gpt_vs_groundtruth"

\* MainSaveJudge, had main left the models without a verdict out of the
\* report
MainSaveJudgeAvailableOnly ==
    /\ mpc = "judging"
    /\ judge_idx > Len(responses)
    /\ LET report == SelectSeq(judge_results, LAMBDA e : e.v # Unavailable)
       IN  /\ disk' = save_results(disk, clock, report, JudgeLabel(eval_mode))
           /\ writes' = Append(writes, [name |-> FileName(JudgeLabel(eval_mode), clock),
                                        report |-> report])
    /\ mpc' = "done"
    /\ UNCHANGED clock
    /\ UNCHANGED <<option, eval_mode, gt_exists, reference_model, abort_cause,
                   judge_idx, judge_calls, judge_failed, judge_results>>
    /\ UNCHANGED <<evalVars, loadVars, promptVars, formatVars>>

\* lines 146-152 and 163-169: the judge evaluator has returned; every
\* result is printed and the results are saved
MainSaveJudge ==
    /\ mpc = "judging"
    /\ judge_idx > Len(responses)
    /\ disk' = save_results(disk, clock, judge_results, JudgeLabel(eval_mode))
    /\ writes' = Append(writes, [name |-> FileName(JudgeLabel(eval_mode), clock),
                                 report |-> judge_results])
    /\ mpc' = "done"
    /\ UNCHANGED clock
    /\ UNCHANGED <<option, eval_mode, gt_exists, reference_model, abort_cause,
                   judge_idx, judge_calls, judge_failed, judge_results>>
    /\ UNCHANGED <<evalVars, loadVars, promptVars, formatVars>>

\* the answers of one model to Q1 and Q2 of topic T1
MainContent(m, a1, a2) ==
    [ model |-> m, file |-> "logs.json", topic |-> "T1",
      questions_answers |-> <<Entry("Q1", a1), Entry("Q2", a2)>> ]

\* the files of the responses directory
MainFilePool ==
    { [json |-> TRUE, kind |-> "object", content |-> MainContent("phi4", Str(<<"Y">>), Str(<<"n">>))],
      [json |-> TRUE, kind |-> "object", content |-> MainContent("GPT4o", Str(<<"Y">>), Str(<<"Y">>))],
      [json |-> TRUE, kind |-> "object", content |-> MainContent("openai_gpt4", Str(<<"n">>), Str(<<"n">>))],
      [json |-> TRUE, kind |-> "object", content |-> MainContent("gpt-4", Str(<<"Y">>), Null)],
      [json |-> TRUE, kind |-> "unparsable"] }

\* the listings of at most MaxFiles different files, the i-th file named i
MainDirectories ==
    UNION { { [i \in 1..n |-> fs[i] @@ [name |-> i]] :
                fs \in { f \in SeqsOf(MainFilePool, n) :
                           \A i, j \in 1..n : i # j => f[i] # f[j] } } :
            n \in 0..MaxFiles }

Options == {"1", "2", "3", "9"}

InitMain ==
    /\ EvaluatorNotBuilt
    /\ NothingSaved
    /\ PromptNotCalled
    /\ FormatNotCalled
    /\ option \in Options
    /\ eval_mode = ""
    /\ mpc = "start"
    /\ gt_exists \in BOOLEAN
    /\ reference_model = None
    /\ abort_cause = ""
    /\ judge_idx = 0
    /\ judge_calls = <<>>
    /\ judge_failed = {}
    /\ judge_results = <<>>
    /\ \/ dir_exists = TRUE /\ directory \in MainDirectories
       \/ dir_exists = FALSE /\ directory = <<>>
    /\ lpc = "off"
    /\ file_idx = 0
    /\ responses = <<>>
    /\ printed = <<>>

NextMain ==
    \/ MainMenu
    \/ LoadResponsesCall
    \/ LoadResponsesStep
    \/ LoadResponsesReturn
    \/ MainLoadRaised
    \/ MainLoadGroundTruth
    \/ MainEvaluate
    \/ EvaluateAllModelsStep
    \/ EvaluateAllModelsReturn
    \/ MainEvaluateRaised
    \/ MainSaveGroundTruth
    \/ MainSelectReference
    \/ JudgeStep
    \/ MainSaveJudge

SpecMain == InitMain /\ [][NextMain]_vars

(***************************************************************************)
(* Claims about a run of main (specification SpecMain)                     *)
(***************************************************************************)
\* whether characters c and d are the same letter, whatever their case
SameLetter(c, d) ==
    \/ c = d
    \/ {c, d} \in {{"g", "G"}, {"p", "P"}, {"t", "T"}}

\* whether an identifier contains 'gpt4', case-insensitively
ContainsMarker(m) ==
    LET id == Characters(m)
        marker == <<"g", "p", "t", "4">>
    IN  \E at \in 0..(Len(id) - 4) :
            \A k \in 1..4 : SameLetter(id[at + k], marker[k])

\* the responses are loaded and main has gone on from there
Loaded == lpc = "done" /\ mpc \in {"evaluate", "evaluating", "judging", "done", "aborted"}

\* C11: in reference-judge mode the reference is the first loaded model, in
\* the order of the responses, whose identifier contains 'gpt4' whatever the
\* case; when no identifier does, the run fails with 'no reference found',
\* no judge call made and no results file written.
C11_FirstMarkedModelIsReference ==
    (eval_mode = "gpt" /\ Loaded) =>
        LET keys == DictKeys(responses)
        IN  IF \E i \in 1..Len(keys) : ContainsMarker(keys[i])
            THEN /\ mpc # "aborted"
                 /\ \E i \in 1..Len(keys) :
                      /\ reference_model = keys[i]
                      /\ ContainsMarker(keys[i])
                      /\ \A j \in 1..(i - 1) : ~ContainsMarker(keys[j])
            ELSE /\ mpc = "aborted"
                 /\ abort_cause = "no reference found"
                 /\ judge_calls = <<>>
                 /\ writes = <<>>
                 /\ disk = <<>>

\* the responses hold an upper-case marked model before a lower-case one,
\* after an unmarked one, and the judge has been called with the reference
\* chosen
C11_Witness ==
    /\ eval_mode = "gpt"
    /\ DictKeys(responses) = <<"phi4", "GPT4o", "openai_gpt4">>
    /\ reference_model = "GPT4o"
    /\ Len(judge_calls) > 0

\* C12: in the ground-truth and the judge-vs-ground-truth mode a missing
\* ground-truth file aborts the run before any model is evaluated or judged
\* and with no results file written; and a run aborts for no other reason
\* than a missing ground-truth file or a missing reference model.
C12_OnlyPreconditionsAbort ==
    /\ (eval_mode \in {"groundtruth", "gpt_vs_groundtruth"} /\ ~gt_exists /\ Loaded) =>
          /\ mpc = "aborted"
          /\ abort_cause = "ground truth file not found"
          /\ results = <<>> /\ returned = <<>>
          /\ judge_calls = <<>>
          /\ writes = <<>>
    /\ mpc = "aborted" =>
          abort_cause \in {"ground truth file not found", "no reference found"}

\* the models a judge-based run has to judge: every loaded model but the
\* reference
ToJudge ==
    SelectSeq(DictKeys(responses),
              LAMBDA m : ~(eval_mode = "gpt" /\ m = reference_model))

====
